---- MODULE Spec2Model ----
(***************************************************************************)
(* Model of src/transport/tcp.rs of hap-rs: the EncryptedStream driver     *)
(* (a Future owning the TcpStream), the StreamWrapper handed to the HTTP   *)
(* layer, the one-shot session channel, and the TCP socket with the peer.  *)
(*                                                                         *)
(* Sizes are scaled: MaxChunk stands for the 1024-byte plaintext limit of  *)
(* one record and TagLen for the 16-byte Poly1305 tag; every other size of *)
(* the source is derived from them exactly as the source derives it        *)
(* (1042 = 2 + 1024 + 16, 14 = 16 - 2, 1536 = 1024 + 512).                 *)
(*                                                                         *)
(* Bytes are symbolic: <<"p", 0, <<v>>>> is a plain byte of value v,       *)
(* <<"c", f, <<key, nonce, i, p>>>> the ChaCha20 encryption of byte p at   *)
(* position i, <<"t", f, <<j, key, nonce, aad, ct>>>> the j-th byte of the *)
(* Poly1305 tag; f = 1 marks a byte with a flipped bit.                    *)
(***************************************************************************)
EXTENDS Integers, Sequences, FiniteSets, TLC

\* ---------------------------------------------------------------- bounds
MaxChunk == 2
TagLen == 3
MaxWrites == 2
MaxSends == 2
MaxClear == 2
MaxReads == 4

\* ------------------------------------------------------ program constants
HeaderLen == 2
ByteRadix == 256
EncBufLen == HeaderLen + MaxChunk + TagLen
DecBufLen == MaxChunk
DataLen == MaxChunk + (MaxChunk + 1) \div 2
TagOffset == TagLen - HeaderLen

None == <<>>
Some(x) == <<x>>
Secret == 7
ControllerId == 42

Min(a, b) == IF a < b THEN a ELSE b
Take(q, n) == SubSeq(q, 1, n)
Drop(q, n) == SubSeq(q, n + 1, Len(q))
IsPrefix(p, q) == Len(p) <= Len(q) /\ p = Take(q, Len(p))
RECURSIVE Concat(_)
Concat(qs) == IF qs = <<>> THEN <<>> ELSE Head(qs) \o Concat(Tail(qs))
\* dst[at .. at + Len(src)) = src, 0-based as in the source
CopyInto(dst, at, src) ==
  [i \in 1..Len(dst) |->
     IF i > at /\ i <= at + Len(src) THEN src[i - at] ELSE dst[i]]

\* ------------------------------------------------------------------ bytes
P(v) == <<"p", 0, <<v>>>>
Zero == P(0)
Zeros(n) == [i \in 1..n |-> Zero]
ByteVal(b) == IF b[1] = "p" THEN b[3][1] ELSE ByteRadix - 1
Flip(b) == <<b[1], 1 - b[2], b[3]>>
Garbage == <<"g", 0, <<0>>>>

write_u16(n) == <<P(n % ByteRadix), P((n \div ByteRadix) % ByteRadix)>>
read_u16(b) == ByteVal(b[1]) + ByteRadix * ByteVal(b[2])
\* nonce = 4 zero bytes, then the counter as 8 little-endian bytes
RECURSIVE LeBytes(_, _)
LeBytes(n, k) == IF k = 0 THEN <<>> ELSE <<n % ByteRadix>> \o LeBytes(n \div ByteRadix, k - 1)
Nonce(count) == <<0, 0, 0, 0>> \o LeBytes(count, 8)

\* ----------------------------------------------------------------- crypto
compute_key(shared_secret_, info) == <<shared_secret_, info>>
compute_read_key(shared_secret_) == compute_key(shared_secret_, "Control-Write-Encryption-Key")
\* the write key derived with the read direction's label
compute_write_key_swapped(shared_secret_) == compute_key(shared_secret_, "Control-Write-Encryption-Key")
compute_write_key(shared_secret_) == compute_key(shared_secret_, "Control-Read-Encryption-Key")

ChaCha20(key, nonce, data) ==
  [i \in 1..Len(data) |-> <<"c", 0, <<key, nonce, i, data[i]>>>>]
ChaCha20Inv(key, nonce, data) ==
  [i \in 1..Len(data) |->
     IF data[i][1] = "c" /\ data[i][2] = 0
        /\ data[i][3][1] = key /\ data[i][3][2] = nonce /\ data[i][3][3] = i
     THEN data[i][3][4] ELSE Garbage]
Poly1305(key, nonce, aad, ct) ==
  [j \in 1..TagLen |-> <<"t", 0, <<j, key, nonce, aad, ct>>>>]

\* encrypt_chunk: the record (aad, chunk, auth_tag); the caller's counter
\* is incremented by the action that uses it (count' = count + 1)
encrypt_chunk(shared_secret_, data, count) ==
  LET write_key == compute_write_key(shared_secret_)
      nonce == Nonce(count)
      aad == write_u16(Len(data) % (ByteRadix * ByteRadix))
      buffer == ChaCha20(write_key, nonce, data)
  IN [aad |-> aad, chunk |-> buffer, auth_tag |-> Poly1305(write_key, nonce, aad, buffer)]

\* the body of decrypt_chunk for a decryptor holding any key
DecryptWith(key, aad, data, auth_tag, count) ==
  LET nonce == Nonce(count)
  IN [ok |-> auth_tag = Poly1305(key, nonce, aad, data),
      buffer |-> ChaCha20Inv(key, nonce, data)]

\* decrypt_chunk: ok = the tag verifies; buffer = the plaintext
decrypt_chunk(shared_secret_, aad, data, auth_tag, count) ==
  LET read_key == compute_read_key(shared_secret_)
      nonce == Nonce(count)
  IN [ok |-> auth_tag = Poly1305(read_key, nonce, aad, data),
      buffer |-> ChaCha20Inv(read_key, nonce, data)]

\* ------------------------------------------------------------------ state
VARIABLES
  \* EncryptedStream
  stream,                          \* the TcpStream with its peer
  shared_secret, controller_id, decrypt_count, encrypt_count,
  encrypted_buf, decrypted_buf, packet_len, already_copied, already_read,
  decrypted_ready, missing_data_for_decrypted_buf, missing_data_for_encrypted_buf,
  session_receiver,                \* the one-shot channel
  outgoing, incoming,              \* the two unbounded channels
  incoming_waker, outgoing_waker,  \* the shared waker slots: TRUE = Some(driver)
  incoming_buf,                    \* StreamWrapper
  pc, woken,                       \* the driver task
  reader,                          \* the consumer task: "run" or "parked"
  obs                              \* history of what was observed (not read by the program)

es_vars == <<stream, shared_secret, controller_id, decrypt_count, encrypt_count,
             encrypted_buf, decrypted_buf, packet_len, already_copied, already_read,
             decrypted_ready, missing_data_for_decrypted_buf,
             missing_data_for_encrypted_buf, session_receiver, obs>>
vars == <<es_vars, outgoing, incoming, incoming_waker, outgoing_waker,
          incoming_buf, pc, woken, reader>>

\* capacities of the socket's send buffer: one record, or the records of the
\* largest chunk
SendCaps == {EncBufLen, (2 * MaxChunk + 1) * EncBufLen}

Ret(k, n) == [k |-> k, n |-> n]
Pending == Ret("pending", 0)

\* the EncryptedStream (with its socket) as a value the methods transform;
\* ret is the Poll returned, got the bytes copied into the caller's buffer
Self ==
  [stream |-> stream, shared_secret |-> shared_secret, controller_id |-> controller_id,
   decrypt_count |-> decrypt_count, encrypt_count |-> encrypt_count,
   encrypted_buf |-> encrypted_buf, decrypted_buf |-> decrypted_buf,
   packet_len |-> packet_len, already_copied |-> already_copied,
   already_read |-> already_read, decrypted_ready |-> decrypted_ready,
   missing_data_for_decrypted_buf |-> missing_data_for_decrypted_buf,
   missing_data_for_encrypted_buf |-> missing_data_for_encrypted_buf,
   session_receiver |-> session_receiver, obs |-> obs,
   ret |-> Pending, got |-> <<>>]

Store(s) ==
  /\ stream' = s.stream
  /\ shared_secret' = s.shared_secret
  /\ controller_id' = s.controller_id
  /\ decrypt_count' = s.decrypt_count
  /\ encrypt_count' = s.encrypt_count
  /\ encrypted_buf' = s.encrypted_buf
  /\ decrypted_buf' = s.decrypted_buf
  /\ packet_len' = s.packet_len
  /\ already_copied' = s.already_copied
  /\ already_read' = s.already_read
  /\ decrypted_ready' = s.decrypted_ready
  /\ missing_data_for_decrypted_buf' = s.missing_data_for_decrypted_buf
  /\ missing_data_for_encrypted_buf' = s.missing_data_for_encrypted_buf
  /\ session_receiver' = s.session_receiver

\* ----------------------------------------------------------- the socket
\* end of stream is visible once the peer closed and every byte was read
AtEof(st) == st.closed /\ st.wire = <<>> /\ st.inb = <<>>

\* TcpStream::poll_read into a buffer of cap bytes: every byte that has
\* arrived, up to cap; Pending registers the task for read readiness
TcpRead(s, cap) ==
  LET st == s.stream
      n == Min(cap, Len(st.inb))
  IN IF st.broken THEN [s EXCEPT !.ret = Ret("err", 0), !.got = <<>>]
     ELSE IF n > 0 THEN
       [s EXCEPT !.stream.inb = Drop(st.inb, n), !.ret = Ret("ok", n),
                 !.got = Take(st.inb, n)]
     ELSE IF AtEof(st) THEN
       [s EXCEPT !.ret = Ret("ok", 0), !.got = <<>>,
                 !.obs.eof_read = (cap > 0) \/ @]
     ELSE IF cap = 0 /\ st.inb # <<>> THEN [s EXCEPT !.ret = Ret("ok", 0), !.got = <<>>]
     ELSE [s EXCEPT !.stream.rd_reg = TRUE, !.ret = Pending, !.got = <<>>]

\* TcpStream::poll_write: the socket takes what fits into its send buffer;
\* Pending (no room) registers the task for write readiness
TcpWrite(s, data) ==
  LET st == s.stream
      n == Min(Len(data), st.space)
  IN IF st.broken THEN [s EXCEPT !.ret = Ret("err", 0)]
     ELSE IF st.space = 0 THEN [s EXCEPT !.stream.wr_reg = TRUE, !.ret = Pending]
     ELSE [s EXCEPT !.stream.out = @ \o Take(data, n), !.stream.space = @ - n,
                    !.ret = Ret("ok", n)]

\* -------------------------------------------------- EncryptedStream, inbound
Panic(s) == [s EXCEPT !.ret = Ret("panic", 0), !.got = <<>>]

read_decrypted(s, cap) ==
  IF s.decrypted_ready THEN
    LET len == Min(cap, s.packet_len - TagLen)
        whole == (len = s.packet_len - TagLen)
    IN IF len > DecBufLen THEN Panic(s)
       ELSE [s EXCEPT !.got = Take(s.decrypted_buf, len),
                      !.already_copied = IF whole THEN 0 ELSE len,
                      !.decrypted_ready = ~whole,
                      !.ret = Ret("ok", len)]
  ELSE [s EXCEPT !.ret = Pending, !.got = <<>>]

\* read_encrypted that does not look at the result of the tag verification
read_encrypted_unverified(s, cap) ==
  IF s.missing_data_for_decrypted_buf THEN
    IF s.packet_len + HeaderLen > EncBufLen THEN Panic(s)
    ELSE
      LET d == decrypt_chunk(s.shared_secret[1],
                             SubSeq(s.encrypted_buf, 1, HeaderLen),
                             SubSeq(s.encrypted_buf, HeaderLen + 1, s.packet_len - TagOffset),
                             SubSeq(s.encrypted_buf, s.packet_len - TagOffset + 1,
                                    s.packet_len + HeaderLen),
                             s.decrypt_count)
          counted == [s EXCEPT !.decrypt_count = @ + 1]
      IN IF Len(d.buffer) > DecBufLen THEN Panic(counted)
         ELSE read_decrypted(
                [counted EXCEPT !.decrypted_buf = CopyInto(@, 0, d.buffer),
                                !.missing_data_for_decrypted_buf = FALSE,
                                !.decrypted_ready = TRUE,
                                !.obs.rx_ok = @ + 1],
                cap)
  ELSE [s EXCEPT !.ret = Pending, !.got = <<>>]

read_encrypted(s, cap) ==
  IF s.missing_data_for_decrypted_buf THEN
    IF s.packet_len + HeaderLen > EncBufLen THEN Panic(s)
    ELSE
      LET d == decrypt_chunk(s.shared_secret[1],
                             SubSeq(s.encrypted_buf, 1, HeaderLen),
                             SubSeq(s.encrypted_buf, HeaderLen + 1, s.packet_len - TagOffset),
                             SubSeq(s.encrypted_buf, s.packet_len - TagOffset + 1,
                                    s.packet_len + HeaderLen),
                             s.decrypt_count)
          counted == [s EXCEPT !.decrypt_count = @ + 1]
      IN IF ~d.ok THEN
           [counted EXCEPT !.ret = Ret("err", 0), !.got = <<>>, !.obs.auth_failed = TRUE]
         ELSE IF Len(d.buffer) > DecBufLen THEN Panic(counted)
         ELSE read_decrypted(
                [counted EXCEPT !.decrypted_buf = CopyInto(@, 0, d.buffer),
                                !.missing_data_for_decrypted_buf = FALSE,
                                !.decrypted_ready = TRUE,
                                !.obs.rx_ok = @ + 1],
                cap)
  ELSE [s EXCEPT !.ret = Pending, !.got = <<>>]

\* the record is complete: hand it to read_encrypted
RecordRead(s, cap) ==
  read_encrypted([s EXCEPT !.already_read = 0,
                           !.missing_data_for_encrypted_buf = FALSE,
                           !.missing_data_for_decrypted_buf = TRUE], cap)

read_stream(s, cap) ==
  IF s.missing_data_for_encrypted_buf THEN
    LET r == TcpRead(s, EncBufLen - s.already_read)
        t == [r EXCEPT !.encrypted_buf = CopyInto(@, s.already_read, r.got), !.got = <<>>]
    IN IF r.ret.k # "ok" THEN t
       ELSE IF s.already_read + r.ret.n = s.packet_len THEN RecordRead(t, cap)
       ELSE [t EXCEPT !.ret = Pending]
  ELSE
    LET r == TcpRead(s, HeaderLen - s.already_read)
        t == [r EXCEPT !.encrypted_buf = CopyInto(@, s.already_read, r.got), !.got = <<>>,
                       !.already_read = @ + r.ret.n]
    IN IF r.ret.k # "ok" THEN t
       ELSE IF t.already_read = HeaderLen THEN
         LET h == [t EXCEPT !.packet_len = read_u16(t.encrypted_buf) + TagLen,
                            !.missing_data_for_encrypted_buf = TRUE]
             r2 == TcpRead(h, EncBufLen - h.already_read)
             t2 == [r2 EXCEPT !.encrypted_buf = CopyInto(@, h.already_read, r2.got),
                              !.got = <<>>]
         IN IF r2.ret.k # "ok" THEN t2
            ELSE IF r2.ret.n = h.packet_len THEN RecordRead(t2, cap)
            ELSE [t2 EXCEPT !.already_read = @ + r2.ret.n, !.ret = Pending]
       ELSE [t EXCEPT !.ret = Pending]

\* poll_read that adopts the session without publishing the controller id
poll_read_no_id(s, cap) ==
  LET adopt == s.shared_secret = None /\ s.session_receiver = "sent"
      a == IF adopt
           THEN [s EXCEPT !.shared_secret = Some(Secret), !.session_receiver = "received"]
           ELSE s
  IN IF a.shared_secret = None THEN TcpRead(a, cap)
     ELSE LET d == read_decrypted(a, cap)
          IN IF d.ret.k # "pending" THEN d
             ELSE LET e == read_encrypted(d, cap)
                  IN IF e.ret.k # "pending" THEN e ELSE read_stream(e, cap)

\* <EncryptedStream as AsyncRead>::poll_read
poll_read(s, cap) ==
  LET adopt == s.shared_secret = None /\ s.session_receiver = "sent"
      a == IF adopt
           THEN [s EXCEPT !.controller_id = Some(ControllerId), !.shared_secret = Some(Secret),
                          !.session_receiver = "received"]
           ELSE s
  IN IF a.shared_secret = None THEN TcpRead(a, cap)
     ELSE LET d == read_decrypted(a, cap)
          IN IF d.ret.k # "pending" THEN d
             ELSE LET e == read_encrypted(d, cap)
                  IN IF e.ret.k # "pending" THEN e ELSE read_stream(e, cap)

\* ------------------------------------------------- EncryptedStream, outbound
\* one record: encrypt_chunk, then the socket write, whose result is dropped
\* unless it is an error
WriteRecord(s, data) ==
  LET e == encrypt_chunk(s.shared_secret[1], data, s.encrypt_count)
      rec == e.aad \o e.chunk \o e.auth_tag
      w == TcpWrite([s EXCEPT !.encrypt_count = @ + 1], rec)
  IN [w EXCEPT !.obs.tx_recs = @ + 1,
               !.obs.tx_full = IF w.ret.k = "ok" /\ w.ret.n = Len(rec) THEN @ + 1 ELSE @]

\* the chunking loop cutting at >= MaxChunk instead of > MaxChunk
RECURSIVE WriteLoop_ge(_, _, _)
WriteLoop_ge(s, write_buf, len) ==
  IF Len(write_buf) >= MaxChunk THEN
    LET w == WriteRecord(s, Take(write_buf, MaxChunk))
    IN IF w.ret.k = "err" THEN w ELSE WriteLoop_ge(w, Drop(write_buf, MaxChunk), len)
  ELSE
    LET w == WriteRecord(s, write_buf)
    IN IF w.ret.k = "err" THEN w ELSE [w EXCEPT !.ret = Ret("ok", len)]

RECURSIVE WriteLoop(_, _, _)
WriteLoop(s, write_buf, len) ==
  IF Len(write_buf) > MaxChunk THEN
    LET w == WriteRecord(s, Take(write_buf, MaxChunk))
    IN IF w.ret.k = "err" THEN w ELSE WriteLoop(w, Drop(write_buf, MaxChunk), len)
  ELSE
    LET w == WriteRecord(s, write_buf)
    IN IF w.ret.k = "err" THEN w ELSE [w EXCEPT !.ret = Ret("ok", len)]

\* poll_write putting a length header before a passthrough chunk
poll_write_framed(s, buf) ==
  IF s.shared_secret # None THEN WriteLoop(s, buf, Len(buf))
  ELSE TcpWrite(s, write_u16(Len(buf)) \o buf)

\* <EncryptedStream as AsyncWrite>::poll_write
poll_write(s, buf) ==
  IF s.shared_secret # None THEN WriteLoop(s, buf, Len(buf)) ELSE TcpWrite(s, buf)

\* ------------------------------------------------------------------- Init
Init ==
  /\ \E cap \in SendCaps :
       stream = [inb |-> <<>>, wire |-> <<>>, closed |-> FALSE, broken |-> FALSE,
                 out |-> <<>>, cap |-> cap, space |-> cap,
                 rd_reg |-> FALSE, wr_reg |-> FALSE, peer_count |-> 0]
  /\ shared_secret = None
  /\ controller_id = None
  /\ decrypt_count = 0
  /\ encrypt_count = 0
  /\ encrypted_buf = Zeros(EncBufLen)
  /\ decrypted_buf = Zeros(DecBufLen)
  /\ packet_len = 0
  /\ already_copied = 0
  /\ already_read = 0
  /\ decrypted_ready = FALSE
  /\ missing_data_for_decrypted_buf = FALSE
  /\ missing_data_for_encrypted_buf = FALSE
  /\ session_receiver = "empty"
  /\ outgoing = <<>>
  /\ incoming = <<>>
  /\ incoming_waker = FALSE
  /\ outgoing_waker = FALSE
  /\ incoming_buf = <<>>
  /\ pc = "idle"
  /\ woken = TRUE
  /\ reader = "run"
  /\ obs = [eof_read |-> FALSE, auth_failed |-> FALSE, rx_ok |-> 0,
            tx_recs |-> 0, tx_full |-> 0, pushed |-> <<>>, tx |-> <<>>,
            q_after |-> <<>>, sent |-> <<>>, writes |-> 0, clears |-> 0,
            adoptions |-> 0, clear_sent |-> <<>>, delivered |-> <<>>,
            rd |-> [ret |-> "none", n |-> 0, had |-> 0, dropped |-> FALSE],
            wr |-> [ret |-> "none", dropped |-> FALSE],
            direct |-> <<>>, reads |-> 0]

\* the future has completed, or was dropped
Done == pc \in {"ok", "err", "panic", "dropped"}

\* -------------------------------------------------------- the driver task
\* the executor polls the future when the task was woken; poll() starts
\* with poll_outgoing, whose loop goes on while pc = "outgoing"
Polled == pc = "outgoing" \/ (pc = "idle" /\ woken)

\* poll_outgoing: try_next() finds the queue empty, the task's waker is
\* stored and poll() goes on to poll_incoming
PollOutgoingEmpty ==
  /\ Polled /\ outgoing = <<>>
  /\ outgoing_waker' = TRUE
  /\ pc' = "incoming"
  /\ woken' = IF pc = "idle" THEN FALSE ELSE woken
  /\ UNCHANGED <<es_vars, outgoing, incoming, incoming_waker, incoming_buf, reader>>

\* poll_outgoing in two steps, for a consumer that runs on another thread:
\* try_next() finds the queue empty ...
TryNextEmpty ==
  /\ Polled /\ outgoing = <<>>
  /\ pc' = "store_waker"
  /\ woken' = IF pc = "idle" THEN FALSE ELSE woken
  /\ UNCHANGED <<es_vars, outgoing, incoming, incoming_waker, outgoing_waker,
                 incoming_buf, reader>>

\* ... and then the task's waker is stored in the outgoing slot
StoreOutgoingWaker ==
  /\ pc = "store_waker"
  /\ outgoing_waker' = TRUE
  /\ pc' = "incoming"
  /\ UNCHANGED <<es_vars, outgoing, incoming, incoming_waker, incoming_buf, woken,
                 reader>>

\* poll_outgoing taking the newest chunk of the queue instead of the oldest
PollOutgoingData_lifo ==
  /\ Polled /\ outgoing # <<>>
  /\ woken' = IF pc = "idle" THEN FALSE ELSE woken
  /\ LET data == outgoing[Len(outgoing)]
         w == poll_write(Self, data)
     IN /\ Store(w)
        /\ obs' = [w.obs EXCEPT
                     !.q_after = Tail(@),
                     !.tx = Append(@, [data |-> data,
                                       after |-> Head(obs.q_after),
                                       enc |-> shared_secret # None,
                                       from |-> Len(stream.out),
                                       accepted |-> Len(w.stream.out) - Len(stream.out),
                                       count |-> encrypt_count,
                                       recs |-> w.obs.tx_recs - obs.tx_recs,
                                       full |-> w.obs.tx_full - obs.tx_full,
                                       ret |-> w.ret.k])]
        /\ pc' = IF w.ret.k = "err" THEN "err" ELSE "outgoing"
  /\ outgoing' = SubSeq(outgoing, 1, Len(outgoing) - 1)
  /\ UNCHANGED <<incoming, incoming_waker, outgoing_waker, incoming_buf, reader>>

\* poll_outgoing: one chunk is taken off the queue and given to poll_write
PollOutgoingData ==
  /\ Polled /\ outgoing # <<>>
  /\ woken' = IF pc = "idle" THEN FALSE ELSE woken
  /\ LET data == Head(outgoing)
         w == poll_write(Self, data)
     IN /\ Store(w)
        /\ obs' = [w.obs EXCEPT
                     !.q_after = Tail(@),
                     !.tx = Append(@, [data |-> data,
                                       after |-> Head(obs.q_after),
                                       enc |-> shared_secret # None,
                                       from |-> Len(stream.out),
                                       accepted |-> Len(w.stream.out) - Len(stream.out),
                                       count |-> encrypt_count,
                                       recs |-> w.obs.tx_recs - obs.tx_recs,
                                       full |-> w.obs.tx_full - obs.tx_full,
                                       ret |-> w.ret.k])]
        /\ pc' = IF w.ret.k = "err" THEN "err" ELSE "outgoing"
  /\ outgoing' = Tail(outgoing)
  /\ UNCHANGED <<incoming, incoming_waker, outgoing_waker, incoming_buf, reader>>

\* poll_incoming: one turn of the loop around poll_read
PollIncoming ==
  /\ pc = "incoming"
  /\ LET r == poll_read(Self, DataLen)
         adopted == IF shared_secret = None /\ r.shared_secret # None THEN 1 ELSE 0
     IN /\ Store(r)
        /\ IF r.ret.k = "ok" /\ r.ret.n > 0
           THEN /\ incoming' = Append(incoming, r.got)
                /\ obs' = [r.obs EXCEPT !.pushed = Append(@, r.got),
                                        !.adoptions = @ + adopted]
                /\ pc' = "incoming"
                /\ UNCHANGED incoming_waker
           ELSE /\ incoming' = incoming
                /\ obs' = [r.obs EXCEPT !.adoptions = @ + adopted]
                /\ pc' = CASE r.ret.k = "pending" -> "idle"
                           [] r.ret.k = "ok" -> "ok"
                           [] r.ret.k = "err" -> "err"
                           [] OTHER -> "panic"
                /\ incoming_waker' = IF r.ret.k = "pending" THEN TRUE ELSE incoming_waker
  /\ UNCHANGED <<outgoing, outgoing_waker, incoming_buf, woken, reader>>

\* a caller that uses the stream as an AsyncRead itself: one call of
\* <EncryptedStream as AsyncRead>::poll_read with a buffer of cap bytes
DirectRead(cap) ==
  /\ pc = "idle"
  /\ obs.reads < MaxReads
  /\ LET r == poll_read(Self, cap)
     IN /\ Store(r)
        /\ obs' = [r.obs EXCEPT !.reads = @ + 1,
                                !.direct = IF r.ret.k = "ok" THEN @ \o r.got ELSE @]
        /\ pc' = CASE r.ret.k = "err" -> "err"
                   [] r.ret.k = "panic" -> "panic"
                   [] OTHER -> "idle"
  /\ UNCHANGED <<outgoing, incoming, incoming_waker, outgoing_waker, incoming_buf,
                 woken, reader>>

\* ------------------------------------------------- the consumer (HTTP layer)
Chunk(id, n) == [i \in 1..n |-> P(10 * id + i)]

\* <StreamWrapper as AsyncWrite>::poll_write
\* unbounded_send fails once the driver (the receiver) was dropped
StreamWrapperWrite(buf) ==
  /\ reader = "run"
  /\ IF pc = "dropped"
     THEN /\ obs' = [obs EXCEPT !.wr = [ret |-> "err", dropped |-> TRUE]]
          /\ UNCHANGED <<outgoing, outgoing_waker, incoming_waker, woken>>
     ELSE /\ ~Done
          /\ obs.writes < MaxWrites
          /\ outgoing' = Append(outgoing, buf)
          /\ outgoing_waker' = FALSE
          /\ incoming_waker' = FALSE
          /\ woken' = (woken \/ outgoing_waker \/ incoming_waker)
          /\ obs' = [obs EXCEPT !.writes = @ + 1,
                                !.wr = [ret |-> "ok", dropped |-> FALSE],
                                !.q_after = Append(@, session_receiver # "empty")]
  /\ UNCHANGED <<stream, shared_secret, controller_id, decrypt_count, encrypt_count,
                 encrypted_buf, decrypted_buf, packet_len, already_copied, already_read,
                 decrypted_ready, missing_data_for_decrypted_buf,
                 missing_data_for_encrypted_buf, session_receiver,
                 incoming, incoming_buf, pc, reader>>

\* poll_receiver that does not see that the channel was closed
poll_receiver_open(queue, buf, closed) ==
  IF queue # <<>>
  THEN [k |-> "ready", n |-> Len(Head(queue)), queue |-> Tail(queue),
        buf |-> buf \o Head(queue)]
  ELSE [k |-> "pending", n |-> 0, queue |-> queue, buf |-> buf]

\* StreamWrapper::poll_receiver: try_next() on the inbound channel, which is
\* closed once the driver (the only sender) was dropped
poll_receiver(queue, buf, closed) ==
  IF queue # <<>>
  THEN [k |-> "ready", n |-> Len(Head(queue)), queue |-> Tail(queue),
        buf |-> buf \o Head(queue)]
  ELSE IF closed THEN [k |-> "ready", n |-> 0, queue |-> queue, buf |-> buf]
  ELSE [k |-> "pending", n |-> 0, queue |-> queue, buf |-> buf]

\* the read without incoming_buf.advance(r_len)
StreamWrapperRead_keep(cap) ==
  /\ reader = "run"
  /\ LET r == poll_receiver(incoming, incoming_buf, pc = "dropped")
         r_len == Min(cap, Len(r.buf))
         had == Len(incoming_buf) + Len(Concat(incoming))
     IN IF r.k = "pending"
        THEN /\ reader' = "parked"
             /\ obs' = [obs EXCEPT !.rd = [ret |-> "pending", n |-> 0, had |-> had,
                                           dropped |-> pc = "dropped"]]
             /\ UNCHANGED <<incoming, incoming_buf, incoming_waker, outgoing_waker, woken>>
        ELSE /\ incoming' = r.queue
             /\ incoming_buf' = r.buf
             /\ outgoing_waker' = FALSE
             /\ incoming_waker' = FALSE
             /\ woken' = (woken \/ outgoing_waker \/ incoming_waker)
             /\ obs' = [obs EXCEPT !.delivered = @ \o Take(r.buf, r_len),
                                   !.rd = [ret |-> "ok", n |-> r_len, had |-> had,
                                           dropped |-> pc = "dropped"]]
             /\ UNCHANGED reader
  /\ UNCHANGED <<stream, shared_secret, controller_id, decrypt_count, encrypt_count,
                 encrypted_buf, decrypted_buf, packet_len, already_copied, already_read,
                 decrypted_ready, missing_data_for_decrypted_buf,
                 missing_data_for_encrypted_buf, session_receiver, outgoing, pc>>

\* <StreamWrapper as AsyncRead>::poll_read into a buffer of cap bytes; the
\* Context is not used, so a Pending read leaves the consumer parked
StreamWrapperRead(cap) ==
  /\ reader = "run"
  /\ LET r == poll_receiver(incoming, incoming_buf, pc = "dropped")
         r_len == Min(cap, Len(r.buf))
         had == Len(incoming_buf) + Len(Concat(incoming))
     IN IF r.k = "pending"
        THEN /\ reader' = "parked"
             /\ obs' = [obs EXCEPT !.rd = [ret |-> "pending", n |-> 0, had |-> had,
                                           dropped |-> pc = "dropped"]]
             /\ UNCHANGED <<incoming, incoming_buf, incoming_waker, outgoing_waker, woken>>
        ELSE /\ incoming' = r.queue
             /\ incoming_buf' = Drop(r.buf, r_len)
             /\ outgoing_waker' = FALSE
             /\ incoming_waker' = FALSE
             /\ woken' = (woken \/ outgoing_waker \/ incoming_waker)
             /\ obs' = [obs EXCEPT !.delivered = @ \o Take(r.buf, r_len),
                                   !.rd = [ret |-> "ok", n |-> r_len, had |-> had,
                                           dropped |-> pc = "dropped"]]
             /\ UNCHANGED reader
  /\ UNCHANGED <<stream, shared_secret, controller_id, decrypt_count, encrypt_count,
                 encrypted_buf, decrypted_buf, packet_len, already_copied, already_read,
                 decrypted_ready, missing_data_for_decrypted_buf,
                 missing_data_for_encrypted_buf, session_receiver, outgoing, pc>>

\* the consumer task is polled again for a reason of its own (a timer,
\* another channel): nothing in this module wakes it
ConsumerResume ==
  /\ reader = "parked"
  /\ reader' = "run"
  /\ UNCHANGED <<es_vars, outgoing, incoming, incoming_waker, outgoing_waker,
                 incoming_buf, pc, woken>>

\* the driver future is dropped between two polls: the socket, the inbound
\* sender and the outbound receiver (with what it still holds) go with it
DropDriver ==
  /\ pc \in {"idle", "ok", "err", "panic"}
  /\ pc' = "dropped"
  /\ outgoing' = <<>>
  /\ UNCHANGED <<es_vars, incoming, incoming_waker, outgoing_waker, incoming_buf,
                 woken, reader>>

\* the pair-verify collaborator drops the one-shot sender without a Session
DropSessionSender ==
  /\ ~Done
  /\ session_receiver = "empty"
  /\ session_receiver' = "canceled"
  /\ UNCHANGED <<stream, shared_secret, controller_id, decrypt_count, encrypt_count,
                 encrypted_buf, decrypted_buf, packet_len, already_copied, already_read,
                 decrypted_ready, missing_data_for_decrypted_buf,
                 missing_data_for_encrypted_buf, obs,
                 outgoing, incoming, incoming_waker, outgoing_waker, incoming_buf,
                 pc, woken, reader>>

\* the pair-verify collaborator sends the Session on the one-shot channel
DeliverSession ==
  /\ ~Done
  /\ session_receiver = "empty"
  /\ session_receiver' = "sent"
  /\ UNCHANGED <<stream, shared_secret, controller_id, decrypt_count, encrypt_count,
                 encrypted_buf, decrypted_buf, packet_len, already_copied, already_read,
                 decrypted_ready, missing_data_for_decrypted_buf,
                 missing_data_for_encrypted_buf, obs,
                 outgoing, incoming, incoming_waker, outgoing_waker, incoming_buf,
                 pc, woken, reader>>

\* ------------------------------------------------ the peer and the network
UnchangedButStream ==
  UNCHANGED <<shared_secret, controller_id, decrypt_count, encrypt_count,
              encrypted_buf, decrypted_buf, packet_len, already_copied, already_read,
              decrypted_ready, missing_data_for_decrypted_buf,
              missing_data_for_encrypted_buf, session_receiver,
              outgoing, incoming, incoming_waker, outgoing_waker, incoming_buf, pc,
              reader>>

\* the record the controller builds for plaintext pt at its counter count
PeerRecord(pt, count) ==
  LET key == <<Secret, "Control-Write-Encryption-Key">>
      aad == write_u16(Len(pt))
      ct == ChaCha20(key, Nonce(count), pt)
  IN [aad |-> aad, ct |-> ct, tag |-> Poly1305(key, Nonce(count), aad, ct)]

FlipFirst(q) == [i \in 1..Len(q) |-> IF i = 1 THEN Flip(q[i]) ELSE q[i]]
FlipLen(n) == IF n % 2 = 0 THEN n + 1 ELSE n - 1

Tampers == {"none", "ct", "tag", "len", "drop"}
\* the records the controller sends: unchanged records of every length from
\* 0 to one more than the limit, and a one-byte record changed in each way
RecordKinds ==
  {<<n, "none">> : n \in 0..(MaxChunk + 1)} \cup {<<1, t>> : t \in Tampers \ {"none"}}
\* the sizes of the cleartext messages the controller sends before the
\* session, and of the buffers the consumer reads into
ClearSizes == {1, 2}
ReadCaps == {1, 2, DataLen + 1}
\* the sizes of the chunks the consumer writes
ChunkSizes == {0, 1, MaxChunk, MaxChunk + 1, 2 * MaxChunk + 1}
OnWire(pt, count, tamper) ==
  LET r == PeerRecord(pt, count)
  IN CASE tamper = "none" -> r.aad \o r.ct \o r.tag
       [] tamper = "ct" -> r.aad \o FlipFirst(r.ct) \o r.tag
       [] tamper = "tag" -> r.aad \o r.ct \o FlipFirst(r.tag)
       [] tamper = "len" -> write_u16(FlipLen(Len(pt))) \o r.ct \o r.tag
       [] OTHER -> <<>>

\* the controller sends one record of n plaintext bytes; the network may
\* change a bit of it or lose it.  A record is sent once the bytes before
\* it have reached the socket: the driver sees only what has arrived (inb),
\* where the bytes of several records can wait for one read
PeerSendRecord(n, tamper) ==
  /\ ~Done
  /\ shared_secret # None
  /\ ~stream.closed
  /\ stream.wire = <<>>
  /\ Len(obs.sent) < MaxSends
  /\ tamper # "none" => \A i \in 1..Len(obs.sent) : obs.sent[i].tamper = "none"
  /\ LET pt == Chunk(5 + stream.peer_count, n)
     IN /\ stream' = [stream EXCEPT !.wire = @ \o OnWire(pt, stream.peer_count, tamper),
                                    !.peer_count = @ + 1]
        /\ obs' = [obs EXCEPT !.sent = Append(@, [pt |-> pt, tamper |-> tamper])]
  /\ UNCHANGED woken
  /\ UnchangedButStream

\* before the session exists the controller talks cleartext HTTP
PeerSendClear(n) ==
  /\ ~Done
  /\ session_receiver \in {"empty", "canceled"}
  /\ ~stream.closed
  /\ obs.clears < MaxClear
  /\ stream' = [stream EXCEPT !.wire = @ \o Chunk(20 + obs.clears, n)]
  /\ obs' = [obs EXCEPT !.clears = @ + 1,
                        !.clear_sent = @ \o Chunk(20 + obs.clears, n)]
  /\ UNCHANGED woken
  /\ UnchangedButStream

\* n more bytes reach the socket; a task waiting for read readiness is woken
Arrive(n) ==
  /\ ~Done
  /\ n <= Len(stream.wire)
  /\ stream' = [stream EXCEPT !.inb = @ \o Take(stream.wire, n),
                              !.wire = Drop(@, n),
                              !.rd_reg = FALSE]
  /\ woken' = (woken \/ stream.rd_reg)
  /\ UNCHANGED obs
  /\ UnchangedButStream

\* the controller closes its side
PeerClose ==
  /\ ~Done
  /\ ~stream.closed
  /\ stream' = [stream EXCEPT !.closed = TRUE,
                              !.rd_reg = IF stream.wire = <<>> THEN FALSE ELSE @]
  /\ woken' = (woken \/ (stream.rd_reg /\ stream.wire = <<>>))
  /\ UNCHANGED obs
  /\ UnchangedButStream

\* the connection breaks: from now on reads and writes fail
SocketBreak ==
  /\ ~Done
  /\ ~stream.broken
  /\ stream' = [stream EXCEPT !.broken = TRUE, !.rd_reg = FALSE, !.wr_reg = FALSE]
  /\ woken' = (woken \/ stream.rd_reg \/ stream.wr_reg)
  /\ UNCHANGED obs
  /\ UnchangedButStream

\* the controller has read what was sent: the send buffer has room again
SendBufDrain ==
  /\ ~Done
  /\ stream.space < stream.cap
  /\ stream' = [stream EXCEPT !.space = stream.cap, !.wr_reg = FALSE]
  /\ woken' = (woken \/ stream.wr_reg)
  /\ UNCHANGED obs
  /\ UnchangedButStream

\* ------------------------------------------------------------------- Spec
Next ==
  \/ PollOutgoingEmpty
  \/ PollOutgoingData
  \/ PollIncoming
  \/ \E n \in ChunkSizes : StreamWrapperWrite(Chunk(obs.writes + 1, n))
  \/ DeliverSession
  \/ \E k \in RecordKinds : PeerSendRecord(k[1], k[2])
  \/ \E n \in ClearSizes : PeerSendClear(n)
  \/ \E n \in 1..(EncBufLen + 1) : Arrive(n)
  \/ PeerClose
  \/ SocketBreak
  \/ SendBufDrain

Spec == Init /\ [][Next]_vars

\* the inbound direction: the controller's records, cut up by the network
NextInbound ==
  \/ PollOutgoingEmpty
  \/ PollIncoming
  \/ DeliverSession
  \/ \E k \in RecordKinds : PeerSendRecord(k[1], k[2])
  \/ \E n \in 1..(EncBufLen + 1) : Arrive(n)
  \/ PeerClose

InitInbound == Init /\ stream.cap = EncBufLen

SpecInbound == InitInbound /\ [][NextInbound]_vars

\* the outbound direction: the consumer's chunks on their way to the socket
NextOutbound ==
  \/ PollOutgoingEmpty
  \/ PollOutgoingData
  \/ PollIncoming
  \/ \E n \in ChunkSizes : StreamWrapperWrite(Chunk(obs.writes + 1, n))
  \/ DeliverSession
  \/ SocketBreak
  \/ SendBufDrain

SpecOutbound == Init /\ [][NextOutbound]_vars

\* the outbound direction on a connection that stays up
NextRoundTrip ==
  \/ PollOutgoingEmpty
  \/ PollOutgoingData
  \/ PollIncoming
  \/ \E n \in ChunkSizes : StreamWrapperWrite(Chunk(obs.writes + 1, n))
  \/ DeliverSession
  \/ SendBufDrain

SpecRoundTrip == Init /\ [][NextRoundTrip]_vars

\* the connection around the session's arrival: cleartext messages of 2
\* bytes, which the network may split, and chunks of 2 * MaxChunk + 1 bytes,
\* two of which do not fit into the send buffer; the pair-verify side sends
\* the session or drops its sender
NextPassthrough ==
  \/ PollOutgoingEmpty
  \/ PollOutgoingData
  \/ PollIncoming
  \/ StreamWrapperWrite(Chunk(obs.writes + 1, 2 * MaxChunk + 1))
  \/ DeliverSession
  \/ DropSessionSender
  \/ PeerSendClear(2)
  \/ \E n \in 1..2 : Arrive(n)
  \/ SendBufDrain

InitPassthrough == Init /\ stream.cap = EncBufLen

SpecPassthrough == InitPassthrough /\ [][NextPassthrough]_vars

\* the stream read through its AsyncRead interface with buffers of any size
NextDirect ==
  \/ \E cap \in ReadCaps : DirectRead(cap)
  \/ DeliverSession
  \/ \E k \in RecordKinds : PeerSendRecord(k[1], k[2])
  \/ \E n \in 1..(EncBufLen + 1) : Arrive(n)
  \/ PeerClose

InitDirect == Init /\ stream.cap = EncBufLen

SpecDirect == InitDirect /\ [][NextDirect]_vars

NextRace ==
  \/ TryNextEmpty
  \/ StoreOutgoingWaker
  \/ PollOutgoingData
  \/ PollIncoming
  \/ \E n \in ChunkSizes : StreamWrapperWrite(Chunk(obs.writes + 1, n))
  \/ DeliverSession
  \/ SendBufDrain

SpecRace == Init /\ [][NextRace]_vars

\* the bridge: the driver pushes what it reads, the consumer reads it with
\* buffers smaller and larger than a push, and the driver may be dropped;
\* the consumer's writes before the drop are those of SpecOutbound, and
\* the pushes are those of the passthrough mode (StreamWrapper does not
\* know the mode)
NextBridge ==
  \/ PollOutgoingEmpty
  \/ PollIncoming
  \/ \E cap \in ReadCaps : StreamWrapperRead(cap)
  \/ ConsumerResume
  \/ (pc = "dropped" /\ StreamWrapperWrite(Chunk(obs.writes + 1, 1)))
  \/ \E n \in ClearSizes : PeerSendClear(n)
  \/ \E n \in 1..(DataLen + 1) : Arrive(n)
  \/ PeerClose
  \/ SocketBreak
  \/ DropDriver

InitBridge == Init /\ stream.cap = EncBufLen

SpecBridge == InitBridge /\ [][NextBridge]_vars

\* ================================================================ claims

\* the plaintexts of the records the controller sent, in order
SentPlain == [i \in 1..Len(obs.sent) |-> obs.sent[i].pt]
\* a stream of well-formed records: nothing changed or lost, 1 <= L <= MaxChunk
WellFormedStream ==
  \A i \in 1..Len(obs.sent) :
    obs.sent[i].tamper = "none" /\ Len(obs.sent[i].pt) \in 1..MaxChunk
\* the driver has read every byte the controller sent and has returned
AllRead == stream.wire = <<>> /\ stream.inb = <<>> /\ pc = "idle"

\* C1 - framing robustness: however the bytes of a stream of well-formed
\* records are cut into socket reads, the inbound path emits the records of
\* the stream in order (a prefix of them at any time) and, once the driver
\* has read every byte and returned, all of them.
C1_FramingRobust ==
  WellFormedStream =>
    /\ IsPrefix(obs.pushed, SentPlain)
    /\ AllRead => obs.pushed = SentPlain

\* what one dequeued chunk was offered to the socket as: itself in
\* passthrough, its records (header and tag added to each) in encrypted mode
Offered(e) ==
  IF e.enc THEN Len(e.data) + e.recs * (HeaderLen + TagLen) ELSE Len(e.data)
\* the bytes the socket took for the chunk
OnSocket(e) == SubSeq(stream.out, e.from + 1, e.from + e.accepted)

\* C2 - mode transition: a chunk written before the session was delivered
\* goes to the socket in cleartext, a chunk written after the delivery goes
\* out encrypted, in every interleaving of writes, delivery and polls.
C2_ModeTransition ==
  \A i \in 1..Len(obs.tx) :
    Len(obs.tx[i].data) >= 1 => obs.tx[i].enc = obs.tx[i].after

\* C3 - counters equal records processed: in encrypted mode encrypt_count is
\* the number of records transmitted on the socket and decrypt_count the
\* number of inbound records successfully decrypted.
C3_CountersMatch ==
  shared_secret # None =>
    /\ encrypt_count = obs.tx_full
    /\ decrypt_count = obs.rx_ok

\* C4 - outbound writes are never lost: unless the socket fails, every chunk
\* taken off the outbound queue is written to the socket in full.
C4_NoOutboundLoss ==
  \A i \in 1..Len(obs.tx) :
    obs.tx[i].ret # "err" => obs.tx[i].accepted = Offered(obs.tx[i])

BadLength == packet_len # 0 /\ (packet_len = TagLen \/ packet_len - TagLen > MaxChunk)
C6_FrameLengthChecked == BadLength => pc = "err"

\* C7 - driver completion: once a socket read reported end of stream the
\* driver future eventually completes with Ok.
C7_DriverCompletes == obs.eof_read ~> (pc = "ok")

\* the records a reader of the wire format finds in bytes; whole = FALSE
\* for a last record that is cut short
RECURSIVE WireRecords(_)
WireRecords(bytes) ==
  IF bytes = <<>> THEN <<>>
  ELSE IF Len(bytes) < HeaderLen
  THEN <<[whole |-> FALSE, len |-> 0, aad |-> bytes, ct |-> <<>>, tag |-> <<>>]>>
  ELSE
    LET len == read_u16(bytes)
        rest == Drop(bytes, HeaderLen)
    IN IF Len(rest) < len + TagLen
       THEN <<[whole |-> FALSE, len |-> len, aad |-> Take(bytes, HeaderLen),
               ct |-> rest, tag |-> <<>>]>>
       ELSE <<[whole |-> TRUE, len |-> len, aad |-> Take(bytes, HeaderLen),
               ct |-> Take(rest, len), tag |-> SubSeq(rest, len + 1, len + TagLen)]>>
            \o WireRecords(Drop(rest, len + TagLen))

\* what the controller makes of a record at its counter count
PeerOpen(rec, count) ==
  LET key == <<Secret, "Control-Read-Encryption-Key">>
  IN [ok |-> rec.tag = Poly1305(key, Nonce(count), rec.aad, rec.ct),
      pt |-> ChaCha20Inv(key, Nonce(count), rec.ct)]

CeilDiv(a, b) == (a + b - 1) \div b
\* the chunk went out encrypted and the socket took every record in full
SentInFull(e) == e.enc /\ e.full = e.recs

\* C8 - chunking boundary: with a socket that accepts every write, a chunk
\* of N >= 1 bytes goes out as ceil(N / MaxChunk) records, each but the last
\* of MaxChunk plaintext bytes, whose plaintexts concatenated are the chunk.
C8_Chunking ==
  \A i \in 1..Len(obs.tx) :
    LET e == obs.tx[i]
        N == Len(e.data)
        k == CeilDiv(N, MaxChunk)
        rs == WireRecords(OnSocket(e))
    IN (SentInFull(e) /\ N >= 1) =>
         /\ Len(rs) = k
         /\ \A j \in 1..Len(rs) :
              /\ rs[j].whole
              /\ PeerOpen(rs[j], e.count + j - 1).ok
              /\ rs[j].len = IF j < k THEN MaxChunk ELSE N - (k - 1) * MaxChunk
         /\ Concat([j \in 1..Len(rs) |-> PeerOpen(rs[j], e.count + j - 1).pt]) = e.data

C8_Witness ==
  \E i \in 1..Len(obs.tx) :
    /\ SentInFull(obs.tx[i])
    /\ Len(obs.tx[i].data) = 2 * MaxChunk + 1
    /\ Len(WireRecords(OnSocket(obs.tx[i]))) = 3

\* C9 - wire format: every record written in encrypted mode, for every chunk
\* the consumer can queue (the empty chunk too), is len_le16 || ciphertext ||
\* tag with 1 <= len <= MaxChunk and len ciphertext bytes.
C9_WireFormat ==
  \A i \in 1..Len(obs.tx) :
    LET rs == WireRecords(OnSocket(obs.tx[i]))
    IN SentInFull(obs.tx[i]) =>
         \A j \in 1..Len(rs) :
           /\ rs[j].whole
           /\ rs[j].len >= 1 /\ rs[j].len <= MaxChunk
           /\ Len(rs[j].ct) = rs[j].len /\ Len(rs[j].tag) = TagLen

\* C10 - session latch: the channel starts pre-session, adopts the session
\* at most once, has shared_secret and controller_id set together, and
\* never changes them once they are set.
Latched ==
  /\ obs.adoptions <= 1
  /\ (shared_secret = None) <=> (controller_id = None)
  /\ (shared_secret = None) <=> (obs.adoptions = 0)
  /\ shared_secret # None =>
       /\ shared_secret = Some(Secret)
       /\ controller_id = Some(ControllerId)
       /\ session_receiver = "received"
C10_SessionLatch ==
  /\ (shared_secret = None /\ controller_id = None)
  /\ []Latched
  /\ [][shared_secret # None =>
          shared_secret' = shared_secret /\ controller_id' = controller_id]_vars

C10_Witness ==
  /\ shared_secret = Some(Secret) /\ controller_id = Some(ControllerId)
  /\ obs.adoptions = 1
  /\ Len(obs.tx) >= 1 /\ obs.tx[Len(obs.tx)].enc

\* C11 - outbound ordering: the chunks are taken off the outbound queue in
\* the order they were written, the bytes of one chunk lie on the socket
\* after those of the chunk before it and are not interleaved with another
\* chunk's, and the records carry increasing counters: each chunk starts at
\* the counter the chunk before it ended with, and the j-th record of a
\* chunk authenticates at the chunk's first counter + j - 1.
C11_OutboundOrder ==
  /\ Len(obs.tx) + Len(outgoing) = obs.writes
  /\ \A i \in 1..Len(obs.tx) : obs.tx[i].data = Chunk(i, Len(obs.tx[i].data))
  /\ \A j \in 1..Len(outgoing) :
       outgoing[j] = Chunk(Len(obs.tx) + j, Len(outgoing[j]))
  /\ \A i \in 1..Len(obs.tx) :
       LET e == obs.tx[i]
           rs == WireRecords(OnSocket(e))
       IN /\ e.from = IF i = 1 THEN 0 ELSE obs.tx[i - 1].from + obs.tx[i - 1].accepted
          /\ e.from + e.accepted <= Len(stream.out)
          /\ i > 1 /\ e.enc /\ obs.tx[i - 1].enc =>
               e.count = obs.tx[i - 1].count + obs.tx[i - 1].recs
          /\ e.enc => e.recs >= 1
          /\ SentInFull(e) =>
               \A j \in 1..Len(rs) :
                 /\ PeerOpen(rs[j], e.count + j - 1).ok
                 /\ \A c \in 0..(e.count + Len(rs)) :
                      c # e.count + j - 1 => ~PeerOpen(rs[j], c).ok

C11_Witness ==
  /\ Len(obs.tx) = 2
  /\ SentInFull(obs.tx[1]) /\ SentInFull(obs.tx[2])
  /\ Len(obs.tx[1].data) = MaxChunk + 1 /\ Len(obs.tx[2].data) >= 1
  /\ obs.tx[2].count = 2

\* C12 - bridge write wakes the driver: in no interleaving of a consumer
\* write with a driver poll is a chunk left in the outbound queue while the
\* driver has returned Pending and has not been woken.
C12_WriteWakesDriver ==
  ((\E j \in 1..Len(outgoing) : Len(outgoing[j]) >= 1) /\ pc = "idle") => woken

\* the bridge with the scheduling the executor guarantees: a woken driver is
\* polled and a running poll goes on; nothing is promised about the
\* consumer's own reasons to run (ConsumerResume)
FairBridge ==
  SpecBridge /\ WF_vars(PollOutgoingEmpty) /\ WF_vars(PollIncoming)

\* C13 - bridge read registers the consumer: a consumer that was parked by a
\* Pending read is woken once the driver has pushed bytes onto the inbound
\* queue.
C13_ReaderWoken == (reader = "parked" /\ incoming # <<>>) ~> (reader = "run")

\* C14 - bridge read returns available bytes: a read returns Pending only
\* when no undelivered byte exists, neither in the inbound queue nor left in
\* incoming_buf, and otherwise returns at least one byte.
C14_ReadReturnsAvailable ==
  /\ obs.rd.ret = "pending" => obs.rd.had = 0
  /\ (obs.rd.ret = "ok" /\ obs.rd.had > 0) => obs.rd.n >= 1

\* C15 - completion wakes the consumer: a consumer parked on a read when the
\* driver completes (Ok or Err) is resumed.
C15_CompletionWakes == (reader = "parked" /\ pc \in {"ok", "err"}) ~> (reader = "run")

\* C16 - cancellation: once the driver was dropped a write returns an error,
\* and a read never returns Pending: it returns queued bytes while there are
\* any and 0 after the last of them.
C16_Cancellation ==
  /\ obs.wr.dropped => obs.wr.ret = "err"
  /\ obs.rd.dropped =>
       /\ obs.rd.ret = "ok"
       /\ obs.rd.had > 0 => obs.rd.n >= 1
       /\ obs.rd.n = 0 => obs.delivered = Concat(obs.pushed)
  /\ pc = "dropped" => IsPrefix(obs.delivered, Concat(obs.pushed))

C16_Witness ==
  /\ pc = "dropped" /\ obs.wr.ret = "err"
  /\ obs.rd.dropped /\ obs.rd.n = 0 /\ obs.rd.had = 0
  /\ Len(obs.pushed) >= 2 /\ obs.delivered = Concat(obs.pushed)

\* C19 - the inbound bridge is FIFO without loss: the bytes the reads have
\* returned, then the bytes left in incoming_buf, then the chunks still in
\* the queue are the pushed chunks in push order; so what the reads returned
\* is a prefix of what was pushed.
C19_BridgeFifo ==
  /\ obs.delivered \o incoming_buf \o Concat(incoming) = Concat(obs.pushed)
  /\ IsPrefix(obs.delivered, Concat(obs.pushed))

C19_Witness ==
  /\ Len(obs.pushed) >= 2
  /\ Len(obs.delivered) >= 2
  /\ incoming_buf # <<>>
  /\ incoming # <<>>

\* C17 - passthrough is verbatim: while no session has been adopted (also
\* after the one-shot sender was dropped, which does not end the driver) the
\* bytes pushed onto the inbound queue are the bytes read from the socket,
\* unchanged and in order; what the socket takes of an outbound chunk is the
\* chunk's bytes, unchanged and with nothing put between the chunks; and the
\* counters stay 0.
C17_PassthroughVerbatim ==
  /\ shared_secret = None =>
       /\ Concat(obs.pushed) \o stream.inb \o stream.wire = obs.clear_sent
       /\ encrypt_count = 0 /\ decrypt_count = 0
       /\ obs.tx_recs = 0
       /\ pc \notin {"err", "panic"}
       /\ \A i \in 1..Len(obs.tx) :
            ~obs.tx[i].enc /\ obs.tx[i].accepted <= Len(obs.tx[i].data)
       /\ stream.out = Concat([i \in 1..Len(obs.tx) |->
                                 Take(obs.tx[i].data, obs.tx[i].accepted)])
  /\ \A i \in 1..Len(obs.tx) :
       ~obs.tx[i].enc =>
         /\ obs.tx[i].accepted <= Len(obs.tx[i].data)
         /\ OnSocket(obs.tx[i]) = Take(obs.tx[i].data, obs.tx[i].accepted)
         /\ obs.tx[i].recs = 0 /\ obs.tx[i].count = 0
  /\ session_receiver = "canceled" => shared_secret = None

C17_Witness ==
  /\ session_receiver = "canceled"
  /\ Len(obs.pushed) >= 2 /\ Concat(obs.pushed) = obs.clear_sent
  /\ Len(obs.clear_sent) >= 3
  /\ Len(obs.tx) = 2
  /\ obs.tx[1].accepted = Len(obs.tx[1].data) /\ Len(obs.tx[1].data) = 2 * MaxChunk + 1
  /\ obs.tx[2].accepted = Len(obs.tx[2].data) /\ Len(obs.tx[2].data) >= 1

\* the info labels of the two directions and the secrets a decryptor may hold
InfoLabels == {"Control-Read-Encryption-Key", "Control-Write-Encryption-Key"}
Secrets == {Secret, Secret + 1}
\* the counters a decryptor out of step may be at: the first, and the ones
\* next to c
CountersNear(c) == {0, c, c + 1} \cup (IF c > 0 THEN {c - 1} ELSE {})
\* the plaintext of record j of a chunk
PlainOf(e, j) == SubSeq(e.data, (j - 1) * MaxChunk + 1, Min(j * MaxChunk, Len(e.data)))

\* C18 - round trip and direction-key asymmetry: a record encrypt_chunk wrote
\* at counter c authenticates for a decryptor exactly when it holds the same
\* shared secret, the key of info "Control-Read-Encryption-Key" and counter
\* c, and then decrypts to the plaintext; the channel's own decrypt_chunk
\* (info "Control-Write-Encryption-Key") rejects it, and accepts and returns
\* the plaintext of the record a peer with the crossed labels builds at c.
C18_RoundTrip ==
  \A i \in 1..Len(obs.tx) :
    SentInFull(obs.tx[i]) =>
      \A j \in 1..obs.tx[i].recs :
        LET e == obs.tx[i]
            c == e.count + j - 1
            off == (j - 1) * (HeaderLen + MaxChunk + TagLen)
        IN \A pt \in {PlainOf(e, j)} :
           \A r \in {encrypt_chunk(Secret, pt, c)}, back \in {PeerRecord(pt, c)} :
             /\ SubSeq(OnSocket(e), off + 1, off + HeaderLen + Len(pt) + TagLen)
                  = r.aad \o r.chunk \o r.auth_tag
             /\ DecryptWith(compute_key(Secret, "Control-Read-Encryption-Key"),
                            r.aad, r.chunk, r.auth_tag, c)
                  = [ok |-> TRUE, buffer |-> pt]
             /\ \A sec \in Secrets, info \in InfoLabels, c2 \in CountersNear(c) :
                  (sec # Secret \/ info # "Control-Read-Encryption-Key" \/ c2 # c)
                    => ~DecryptWith(compute_key(sec, info), r.aad, r.chunk, r.auth_tag, c2).ok
             /\ ~decrypt_chunk(Secret, r.aad, r.chunk, r.auth_tag, c).ok
             /\ decrypt_chunk(Secret, back.aad, back.ct, back.tag, c)
                  = [ok |-> TRUE, buffer |-> pt]

C18_Witness ==
  \E i \in 1..Len(obs.tx) :
    /\ SentInFull(obs.tx[i])
    /\ obs.tx[i].count >= 1
    /\ obs.tx[i].recs >= 2
    /\ Len(PlainOf(obs.tx[i], 2)) >= 1

\* C20 - inbound progress without consumer activity: when the driver's poll
\* has returned Pending in encrypted mode with a record partly read and bytes
\* of it still to come, the task is registered for the socket's read
\* readiness (or already woken).
C20_SocketWakeArranged ==
  ( /\ pc = "idle" /\ ~woken
    /\ shared_secret # None
    /\ missing_data_for_encrypted_buf \/ already_read \in 1..(HeaderLen - 1)
    /\ stream.wire # <<>> \/ stream.inb # <<>> )
  => stream.rd_reg

\* C21 - staging buffer bounds: whatever the length prefix and however the
\* socket reads are split, no slice of encrypted_buf or decrypted_buf is out
\* of range: the driver never panics, already_read stays within
\* encrypted_buf, and a record handed to decryption ends inside encrypted_buf.
C21_BufferBounds ==
  /\ pc # "panic"
  /\ already_read <= EncBufLen
  /\ missing_data_for_decrypted_buf => packet_len + HeaderLen <= EncBufLen
  /\ decrypted_ready => packet_len - TagLen <= DecBufLen

\* C22 - Ok means EOF: the driver completes with Ok only after a socket read
\* into a non-empty buffer returned 0 bytes; no record that authenticates
\* completes it while the socket is open.
C22_OkMeansEof == pc = "ok" => obs.eof_read

\* C23 - decrypted plaintext is delivered exactly once: for every buffer size
\* >= 1 the bytes successive poll_read calls return are, in order and each
\* once, the plaintexts of the records of a well-formed stream (a prefix of
\* them at any time).
C23_DeliveredOnce ==
  WellFormedStream => IsPrefix(obs.direct, Concat(SentPlain))

\* the inbound direction with the scheduling the executor guarantees: a
\* woken task is polled, and a running poll goes on
FairInbound ==
  SpecInbound /\ WF_vars(PollOutgoingEmpty) /\ WF_vars(PollIncoming)

====
